---- MODULE Spec2Model ----
(***************************************************************************)
(* The versioned machine-document store of app/ui_machine_history.py:      *)
(* the MachineHistoryUI screen (import, export, recall, deactivate) over   *)
(* the documents/revisions tables of app/db.py and the storage directory.  *)
(* Strings that the code transforms (file names, folder names) are         *)
(* sequences of tokens: a token is one of the characters the code looks    *)
(* for ("/", "_", ".", " ", tab) or a run of other characters.  File       *)
(* contents are opaque values.                                             *)
(***************************************************************************)
EXTENDS Integers, Sequences, FiniteSets, TLC

VARIABLES
    documents,            \* documents table: sequence of rows, id = index
    revisions,            \* revisions table: sequence of rows, id = index
    storage,              \* files under DATA_DIR: stored_path -> bytes
    dirs,                 \* directories created under DATA_DIR/storage
    clock,                \* datetime.now(), in whole seconds
    readonly,             \* MachineHistoryUI.readonly
    line_var,             \* self.line_var
    machine_var,          \* self.machine_var
    selected_document_id, \* self._selected_document_id (0 is None)
    rev_selection,        \* self.rev_tree.selection() (0 is empty)
    exported,             \* the file the last handler exported, if it did
    faults,               \* how many calls have raised for an outside reason
                          \* and files have been removed from outside
    last,                 \* the handler that ran last, how it ended, on what
    sessions,             \* the _save_document and _recall_selected calls of
                          \* concurrent sessions that are under way
    restarts,             \* for every start of the process after the first,
                          \* how many revisions the ledger held by then
    app                   \* the App controller: user, role, user_line, is_dark
                          \* and the page shown in self.container

vars == <<documents, revisions, storage, dirs, clock, readonly, line_var,
          machine_var, selected_document_id, rev_selection, exported, faults,
          last, sessions, restarts, app>>

tables == <<documents, revisions, storage, dirs>>
filters == <<line_var, machine_var>>
selection == <<selected_document_id, rev_selection>>
\* what the handlers of this screen never change
fixed == <<readonly, sessions, restarts, app>>

----------------------------------------------------------------------------
(* Bounds of the model *)

\* the revisions appended, documents deactivated, calls that raised, seconds
\* elapsed and restarts in a behaviour number at most MaxSize together
MaxSize == 3

\* the file names given to _normalize_doc_name have at most MaxNameLen tokens
MaxNameLen == 3

----------------------------------------------------------------------------
(* Strings as sequences of tokens *)

Str_u_t == <<"_", ".", "t">>
Str_document == <<"document">>
Str_document_t == Str_document \o <<".", "t">>
Str_L1 == <<"L1">>
Str_M1 == <<"M", " ", "1">>

\* the files the operator can pick in the file dialog: path and bytes
SourcePaths == {<<"/">> \o Str_u_t, <<"/">> \o Str_document_t}
Contents == {"c1", "c2"}
DocTypes == {"program", "print"}
User == "u"
NoNotes == "None"
RecallNotes == "Recalled previous revision"

Whitespace == {" ", "\t"}
Sep == "/"

RECURSIVE LastIndexOf(_, _)
\* str.rfind(c), 1-based; 0 when c does not occur
LastIndexOf(s, c) ==
    IF s = <<>> THEN 0
    ELSE IF s[Len(s)] = c THEN Len(s)
    ELSE LastIndexOf(SubSeq(s, 1, Len(s) - 1), c)

RECURSIVE Replace(_, _, _)
\* str.replace(old, new) for one-character old and new
Replace(s, old, new) ==
    IF s = <<>> THEN <<>>
    ELSE <<IF Head(s) = old THEN new ELSE Head(s)>> \o Replace(Tail(s), old, new)

RECURSIVE Words(_, _)
\* str.split(): the maximal runs of non-whitespace characters, in order
Words(s, cur) ==
    IF s = <<>> THEN (IF cur = <<>> THEN <<>> ELSE <<cur>>)
    ELSE IF Head(s) \in Whitespace
         THEN (IF cur = <<>> THEN <<>> ELSE <<cur>>) \o Words(Tail(s), <<>>)
         ELSE Words(Tail(s), Append(cur, Head(s)))

RECURSIVE Join(_)
\* " ".join(words)
Join(ws) ==
    IF ws = <<>> THEN <<>>
    ELSE IF Len(ws) = 1 THEN ws[1]
    ELSE ws[1] \o <<" ">> \o Join(Tail(ws))

\* os.path.basename on POSIX: what follows the last separator
Basename(path) ==
    SubSeq(path, LastIndexOf(path, Sep) + 1, Len(path))

\* PurePath.suffix: from the last dot, unless it is the first or last character
Suffix(name) ==
    LET i == LastIndexOf(name, ".")
    IN IF 1 < i /\ i < Len(name) THEN SubSeq(name, i, Len(name)) ELSE <<>>

\* PurePath.stem
Stem(name) ==
    LET i == LastIndexOf(name, ".")
    IN IF 1 < i /\ i < Len(name) THEN SubSeq(name, 1, i - 1) ELSE name

\* _normalize_doc_name
NormalizeDocName(filename) ==
    Join(Words(Replace(Stem(Basename(filename)), "_", " "), <<>>))

\* _safe_folder_name (os.sep is "/", os.altsep is None)
SafeFolderName(value) ==
    LET safe == Replace(Replace(value, Sep, "_"), " ", "_")
    IN IF safe = <<>> THEN Str_document ELSE safe

\* _hash_file: SHA-256 of the bytes, taken to be collision-free
HashFile(bytes) == <<"sha256", bytes>>


RECURSIVE StripLeft(_)
StripLeft(s) ==
    IF s # <<>> /\ Head(s) \in Whitespace THEN StripLeft(Tail(s)) ELSE s

RECURSIVE StripRight(_)
StripRight(s) ==
    IF s # <<>> /\ s[Len(s)] \in Whitespace
    THEN StripRight(SubSeq(s, 1, Len(s) - 1)) ELSE s

\* str.strip()
Strip(s) == StripRight(StripLeft(s))

----------------------------------------------------------------------------
(* Master data: list_lines and list_machines_for_line *)

ListLines == {Str_L1}

ListMachinesForLine(line) ==
    IF line = Str_L1 THEN <<Str_M1>> ELSE <<>>

----------------------------------------------------------------------------
(* app/db.py: the documents and revisions tables *)

SetMin(S) == CHOOSE x \in S : \A y \in S : x <= y

SetMax(S) == CHOOSE x \in S : \A y \in S : y <= x

SameTarget(doc, line, machine, doc_type) ==
    doc.line = line /\ doc.machine = machine /\ doc.doc_type = doc_type

\* the documents of the target with that name
DocumentsByName(docs, line, machine, doc_type, doc_name) ==
    {d \in 1..Len(docs) :
        SameTarget(docs[d], line, machine, doc_type) /\ docs[d].name = doc_name}

\* the documents of the target one of whose revisions has that content hash
DocumentsByHash(docs, revs, line, machine, doc_type, file_hash) ==
    {d \in 1..Len(docs) :
        /\ SameTarget(docs[d], line, machine, doc_type)
        /\ \E r \in 1..Len(revs) :
              revs[r].document_id = d /\ revs[r].content_hash = file_hash}

FindMachineDocumentByHashOrName(docs, revs, line, machine, doc_type, doc_name, file_hash) ==
    LET byName == DocumentsByName(docs, line, machine, doc_type, doc_name)
        byHash == DocumentsByHash(docs, revs, line, machine, doc_type, file_hash)
    IN IF byHash # {} THEN SetMin(byHash)
       ELSE IF byName # {} THEN SetMin(byName)
       ELSE 0

\* find_machine_document_by_name_or_hash: the name match first, then the hash
\* match; 0 when there is none
FindMachineDocumentByNameOrHash(docs, revs, line, machine, doc_type, doc_name, file_hash) ==
    LET byName == DocumentsByName(docs, line, machine, doc_type, doc_name)
        byHash == DocumentsByHash(docs, revs, line, machine, doc_type, file_hash)
    IN IF byName # {} THEN SetMin(byName)
       ELSE IF byHash # {} THEN SetMin(byHash)
       ELSE 0

CreateRefusedNever(docs, line, machine, doc_type, doc_name) == FALSE

\* create_machine_document refuses an identity that exists
CreateRefused(docs, line, machine, doc_type, doc_name) ==
    DocumentsByName(docs, line, machine, doc_type, doc_name) # {}

CreateMachineDocumentReviving(docs, line, machine, doc_type, doc_name, user) ==
    Append([d \in 1..Len(docs) |-> [docs[d] EXCEPT !.active = TRUE]],
           [line |-> line, machine |-> machine, doc_type |-> doc_type,
            name |-> doc_name, created_by |-> user, active |-> TRUE])

\* create_machine_document: the new row; its id is its index
CreateMachineDocument(docs, line, machine, doc_type, doc_name, user) ==
    Append(docs, [line |-> line, machine |-> machine, doc_type |-> doc_type,
                  name |-> doc_name, created_by |-> user, active |-> TRUE])

RevisionIdsOf(revs, document_id) ==
    {r \in 1..Len(revs) : revs[r].document_id = document_id}

MaxRevisionNumberZero(revs, document_id) == 0

\* the greatest revision_number of the document in the ledger, 0 when it has none
MaxRevisionNumber(revs, document_id) ==
    IF RevisionIdsOf(revs, document_id) = {} THEN 0
    ELSE SetMax({revs[r].revision_number : r \in RevisionIdsOf(revs, document_id)})

\* get_next_machine_document_revision_number
GetNextRevisionNumber(revs, document_id) ==
    MaxRevisionNumber(revs, document_id) + 1

AddRevisionAcceptsAny(revs, document_id, revision_number) == TRUE

\* add_machine_document_revision accepts only the current maximum plus one
AddRevisionAccepts(revs, document_id, revision_number) ==
    revision_number = MaxRevisionNumber(revs, document_id) + 1

AddMachineDocumentRevisionReplacing(revs, row) ==
    IF \E r \in 1..Len(revs) : revs[r].stored_path = row.stored_path
    THEN [revs EXCEPT
             ![CHOOSE r \in 1..Len(revs) : revs[r].stored_path = row.stored_path] = row]
    ELSE Append(revs, row)

\* add_machine_document_revision, accepted: a pure append; the id of the new
\* row is its index
AddMachineDocumentRevision(revs, row) == Append(revs, row)

\* set_machine_document_active
SetMachineDocumentActive(docs, document_id, active) ==
    [docs EXCEPT ![document_id].active = active]

\* list_machine_documents: the active documents of the line and machine
ListMachineDocuments(docs, line, machine) ==
    {d \in 1..Len(docs) :
        docs[d].line = line /\ docs[d].machine = machine /\ docs[d].active}

----------------------------------------------------------------------------
(* _store_file *)

\* target_dir, relative to DATA_DIR
TargetDir(line, machine, doc_type, doc_name) ==
    <<"storage", SafeFolderName(line), SafeFolderName(machine), doc_type,
      SafeFolderName(doc_name)>>

\* rev_<revision_number>_<timestamp><ext>
RevFileName(revision_number, timestamp, ext) ==
    <<"rev", revision_number, timestamp, ext>>

\* target_path, relative to DATA_DIR
TargetPath(line, machine, doc_type, doc_name, revision_number, timestamp, ext) ==
    Append(TargetDir(line, machine, doc_type, doc_name),
           RevFileName(revision_number, timestamp, ext))

CopyFileNothing(fs, path, bytes) == fs

\* shutil.copy2: the destination holds the source's bytes, an existing file is
\* overwritten
CopyFile(fs, path, bytes) ==
    [p \in DOMAIN fs \cup {path} |-> IF p = path THEN bytes ELSE fs[p]]

\* the suffix of a stored file rev_<n>_<timestamp><ext> is <ext>
StoredSuffix(stored_path) == stored_path[Len(stored_path)][4]


----------------------------------------------------------------------------
(* _save_document *)

\* A source file is [path, bytes, fault]: its path and bytes, and the call that
\* raises for an outside reason while it is saved: "copy" (shutil.copy2, as on
\* a full disk), "append" (add_machine_document_revision, as on a locked
\* database) or "none".
Faults == {"none", "copy", "append"}

\* the files picked in the model: as programs every path with every content,
\* as prints one file that is also picked as a program, and the files for
\* which a call raises
HealthyFiles == [path : SourcePaths, bytes : Contents, fault : {"none"}]

PrintFiles ==
    [path : {<<"/">> \o Str_document_t}, bytes : {"c1"}, fault : {"none"}]

FaultyFiles ==
    [path : {<<"/">> \o Str_document_t}, bytes : {"c1"}, fault : {"copy", "append"}]

RECURSIVE FaultsIn(_)
FaultsIn(paths) ==
    IF paths = <<>> THEN 0
    ELSE (IF Head(paths).fault = "none" THEN 0 ELSE 1) + FaultsIn(Tail(paths))

RevisionNumberForCached(revs, document_id) ==
    1 + Cardinality({r \in RevisionIdsOf(revs, document_id) :
                        r > IF restarts = <<>> THEN 0 ELSE restarts[Len(restarts)]})

\* "revision_number = get_next_machine_document_revision_number(document_id)":
\* the number is asked of the ledger in every call of _save_document and
\* _recall_selected
RevisionNumberFor(revs, document_id) == GetNextRevisionNumber(revs, document_id)

ResolveCreatesAlways(existing) == TRUE

\* "if existing: ... else: create_machine_document(...)"
ResolveCreates(existing) == existing = 0

AppendReachedAlways(copied) == TRUE

\* add_machine_document_revision is reached only when _store_file returned:
\* an exception of shutil.copy2 leaves _save_document
AppendReached(copied) == copied

\* One call of _save_document on the tables and the storage
\* db = [documents, revisions, storage, dirs]; the result is the new db and
\* how the call ended: "ok", or the call that raised.
SaveDocument(db, src, line, machine, doc_type, user, now) ==
    LET doc_name == NormalizeDocName(Basename(src.path))
        file_hash == HashFile(src.bytes)
        existing == FindMachineDocumentByNameOrHash(
                        db.documents, db.revisions, line, machine, doc_type,
                        doc_name, file_hash)
        creates == ResolveCreates(existing)
        refused == creates /\ CreateRefused(db.documents, line, machine, doc_type, doc_name)
        docs1 == IF creates
                 THEN CreateMachineDocument(db.documents, line, machine, doc_type, doc_name, user)
                 ELSE db.documents
        document_id == IF creates THEN Len(docs1) ELSE existing
        revision_number == RevisionNumberFor(db.revisions, document_id)
        target_dir == TargetDir(line, machine, doc_type, doc_name)
        stored_path == TargetPath(line, machine, doc_type, doc_name, revision_number,
                                  now, Suffix(Basename(src.path)))
        fs1 == IF src.fault # "copy" THEN CopyFile(db.storage, stored_path, src.bytes)
               ELSE db.storage
        row == [document_id |-> document_id,
                revision_number |-> revision_number,
                stored_path |-> stored_path,
                original_filename |-> Basename(src.path),
                content_hash |-> file_hash,
                created_by |-> user,
                notes |-> NoNotes]
        accepted == src.fault # "append"
                    /\ AddRevisionAccepts(db.revisions, document_id, revision_number)
    IN IF refused
       THEN [db |-> db, outcome |-> "create_failed"]
       ELSE IF ~AppendReached(src.fault # "copy")
       THEN [db |-> [documents |-> docs1, revisions |-> db.revisions,
                     storage |-> fs1, dirs |-> db.dirs \cup {target_dir}],
             outcome |-> "copy_failed"]
       ELSE IF ~accepted
       THEN [db |-> [documents |-> docs1, revisions |-> db.revisions,
                     storage |-> fs1, dirs |-> db.dirs \cup {target_dir}],
             outcome |-> "append_failed"]
       ELSE [db |-> [documents |-> docs1,
                     revisions |-> AddMachineDocumentRevision(db.revisions, row),
                     storage |-> fs1, dirs |-> db.dirs \cup {target_dir}],
             outcome |-> "ok"]

RECURSIVE SaveAllAborting(_, _, _, _, _, _, _)
SaveAllAborting(db, paths, line, machine, doc_type, user, now) ==
    IF paths = <<>> THEN [db |-> db, outcomes |-> <<>>]
    ELSE LET one == SaveDocument(db, Head(paths), line, machine, doc_type, user, now)
             rest == SaveAllAborting(one.db, Tail(paths), line, machine, doc_type, user, now)
         IN IF one.outcome # "ok"
            THEN [db |-> one.db, outcomes |-> <<one.outcome>>]
            ELSE [db |-> rest.db, outcomes |-> <<one.outcome>> \o rest.outcomes]

RECURSIVE SaveAll(_, _, _, _, _, _, _)
\* "for path in paths: try: self._save_document(...) except Exception: showerror"
\* the result is the new db and the outcome of every file, in order
SaveAll(db, paths, line, machine, doc_type, user, now) ==
    IF paths = <<>> THEN [db |-> db, outcomes |-> <<>>]
    ELSE LET one == SaveDocument(db, Head(paths), line, machine, doc_type, user, now)
             rest == SaveAll(one.db, Tail(paths), line, machine, doc_type, user, now)
         IN [db |-> rest.db, outcomes |-> <<one.outcome>> \o rest.outcomes]

----------------------------------------------------------------------------
(* app/ui_login.py: the App controller and the login page *)

\* Python's None where a string may stand
None == <<"<None>">>

\* bool(value) of a string or None
Truthy(value) == value # None /\ value # <<>>

\* str.lower() of one token
LowerToken(t) ==
    CASE t = "QC" -> "qc"
      [] t = "Qc" -> "qc"
      [] t = "Quality" -> "quality"
      [] t = "Operator" -> "operator"
      [] t = "Leader" -> "leader"
      [] t = "Admin" -> "admin"
      [] t = "UIDE" -> "uide"
      [] t = "Tool" -> "tool"
      [] t = "Changer" -> "changer"
      [] t = "Top" -> "top"
      [] t = "(Super" -> "(super"
      [] t = "User)" -> "user)"
      [] t = "Guest" -> "guest"
      [] OTHER -> t

\* str.lower()
Lower(s) == [i \in DOMAIN s |-> LowerToken(s[i])]

Str_ToolChanger == <<"Tool", " ", "Changer">>
Str_Operator == <<"Operator">>
Str_Leader == <<"Leader">>
Str_Quality == <<"Quality">>
Str_Top == <<"Top", " ", "(Super", " ", "User)">>
Str_Admin == <<"Admin">>
Str_UIDE == <<"UIDE">>
Str_Both == <<"Both">>

ROLE_ALIASES ==
    (<<"toolchanger">> :> Str_ToolChanger)
    @@ (<<"tool", " ", "changer">> :> Str_ToolChanger)
    @@ (<<"tool", "_", "change">> :> Str_ToolChanger)
    @@ (<<"toolchange">> :> Str_ToolChanger)
    @@ (<<"leader">> :> Str_Leader)
    @@ (<<"quality">> :> Str_Quality)
    @@ (<<"qc">> :> Str_Quality)
    @@ (<<"top">> :> Str_Top)
    @@ (<<"super">> :> Str_Top)
    @@ (<<"top", " ", "(super", " ", "user)">> :> Str_Top)
    @@ (<<"admin">> :> Str_Admin)
    @@ (<<"operator">> :> Str_Operator)
    @@ (<<"uide">> :> Str_UIDE)

\* normalize_role
NormalizeRole(role_value) ==
    IF role_value = None THEN <<>>
    ELSE LET r == Strip(role_value)
             key == Strip(Lower(r))
         IN IF r = <<>> THEN <<>>
            ELSE IF key \in DOMAIN ROLE_ALIASES THEN ROLE_ALIASES[key] ELSE r

ROLE_TO_UI ==
    (Str_ToolChanger :> "ToolChangerUI")
    @@ (Str_Operator :> "OperatorUI")
    @@ (Str_Leader :> "LeaderUI")
    @@ (Str_Quality :> "QualityUI")
    @@ (Str_Top :> "SuperUI")
    @@ (Str_Admin :> "AdminUI")
    @@ (Str_UIDE :> "UIDEUI")

\* App.__init__: nobody logged in, the light theme, the login page shown
AppInit ==
    [user |-> None, role |-> None, user_line |-> None, is_dark |-> FALSE,
     page |-> "LoginPage"]

\* show_login
ShowLogin(a) == [a EXCEPT !.page = "LoginPage"]

AppLogoutKeepingUser(a) ==
    ShowLogin([a EXCEPT !.role = None, !.user_line = None])

\* logout
AppLogout(a) ==
    ShowLogin([a EXCEPT !.user = None, !.role = None, !.user_line = None])

\* route_role: the screen of the role, or logout for a role without one
AppRouteRole(a) ==
    LET role == NormalizeRole(a.role)
    IN IF role \notin DOMAIN ROLE_TO_UI
       THEN AppLogout(a)
       ELSE [a EXCEPT !.page = ROLE_TO_UI[role]]

\* login
AppLogin(a, username, role, line) ==
    AppRouteRole([a EXCEPT !.user = username,
                           !.role = NormalizeRole(role),
                           !.user_line = IF Truthy(line) THEN line ELSE Str_Both])

\* toggle_theme
AppToggleTheme(a) ==
    LET b == [a EXCEPT !.is_dark = ~a.is_dark]
    IN IF Truthy(b.user) THEN AppRouteRole(b) ELSE ShowLogin(b)

----------------------------------------------------------------------------
(* The state of the screen *)

Db == [documents |-> documents, revisions |-> revisions,
       storage |-> storage, dirs |-> dirs]

NoExport == [name |-> <<>>, bytes |-> "none"]

\* what a handler leaves for the operator to see: its name, how it ended (one
\* entry per file for an import) and, when it got as far as acting, on what
OutcomeOf(op, how, input) == [op |-> op, outcome |-> how, input |-> input]

Outcome(op, how) == OutcomeOf(op, how, <<>>)

\* the sessions that may run next to each other on one DATA_DIR
Writers == {1, 2}

\* a session in which no call is under way; the fields are the locals of
\* _save_document and _recall_selected
IdleSession ==
    [pc |-> "idle", op |-> "none", src |-> <<>>, doc_type |-> "none",
     document_id |-> 0, revision_number |-> 0, stored_path |-> <<>>,
     source |-> 0, file_hash |-> <<>>]

Init ==
    /\ documents = <<>>
    /\ revisions = <<>>
    /\ storage = <<>>
    /\ dirs = {}
    /\ clock = 0
    /\ readonly \in BOOLEAN
    /\ line_var = <<>>
    /\ machine_var = <<>>
    /\ selected_document_id = 0
    /\ rev_selection = 0
    /\ exported = NoExport
    /\ faults = 0
    /\ last = Outcome("init", <<>>)
    /\ sessions = [w \in Writers |-> IdleSession]
    /\ restarts = <<>>
    /\ app = AppInit

ReadonlyReturnsNever == FALSE

\* "if self.readonly: return", the first statement of _import_documents,
\* _recall_selected and _delete_document
ReadonlyReturns == readonly

\* _require_line_machine succeeds
HasLineMachine == Strip(line_var) # <<>> /\ Strip(machine_var) # <<>>

\* the line combobox: _refresh_machine_options, which ends in refresh_documents
SelectLine(line) ==
    /\ line_var' = line
    /\ machine_var' = IF ListMachinesForLine(line) # <<>>
                      THEN ListMachinesForLine(line)[1] ELSE <<>>
    /\ selected_document_id' = 0
    /\ rev_selection' = 0
    /\ last' = Outcome("select_line", <<>>)
    /\ exported' = NoExport
    /\ UNCHANGED <<tables, clock, fixed, faults>>

\* the document tree: _load_document_details
SelectDocument(doc_id) ==
    /\ HasLineMachine
    /\ doc_id \in ListMachineDocuments(documents, Strip(line_var), Strip(machine_var))
    /\ selected_document_id' = doc_id
    /\ rev_selection' = 0
    /\ last' = Outcome("select_document", <<>>)
    /\ exported' = NoExport
    /\ UNCHANGED <<tables, clock, fixed, filters, faults>>

\* the revision tree: the operator selects one of the rows shown
SelectRevision(rev_id) ==
    /\ selected_document_id # 0
    /\ rev_id \in RevisionIdsOf(revisions, selected_document_id)
    /\ rev_selection' = rev_id
    /\ last' = Outcome("select_revision", <<>>)
    /\ exported' = NoExport
    /\ UNCHANGED <<tables, clock, fixed, filters, selected_document_id, faults>>

\* _import_documents (through _import_programs or _import_prints)
ImportDocuments(doc_type, paths) ==
    /\ IF ReadonlyReturns
       THEN /\ last' = Outcome("import", <<"readonly">>)
            /\ UNCHANGED <<tables, selection, faults>>
       ELSE IF ~HasLineMachine
       THEN /\ last' = Outcome("import", <<"selection_required">>)
            /\ UNCHANGED <<tables, selection, faults>>
       ELSE IF paths = <<>>
       THEN /\ last' = Outcome("import", <<"cancelled">>)
            /\ UNCHANGED <<tables, selection, faults>>
       ELSE LET res == SaveAll(Db, paths, Strip(line_var), Strip(machine_var),
                               doc_type, User, clock)
            IN /\ documents' = res.db.documents
               /\ revisions' = res.db.revisions
               /\ storage' = res.db.storage
               /\ dirs' = res.db.dirs
               /\ selected_document_id' = 0
               /\ rev_selection' = 0
               /\ faults' = faults + FaultsIn(paths)
               /\ last' = OutcomeOf("import", res.outcomes, <<doc_type, paths>>)
    /\ exported' = NoExport
    /\ UNCHANGED <<clock, fixed, filters>>

\* datetime.now() moves on
Tick ==
    /\ clock' = clock + 1
    /\ last' = Outcome("tick", <<>>)
    /\ exported' = NoExport
    /\ UNCHANGED <<tables, fixed, filters, selection, faults>>

RECURSIVE RevisionsDescending(_, _)
\* the revisions with these ids, the greatest revision_number first
RevisionsDescending(revs, ids) ==
    IF ids = {} THEN <<>>
    ELSE LET top == CHOOSE r \in ids : \A q \in ids :
                        \/ revs[q].revision_number < revs[r].revision_number
                        \/ (revs[q].revision_number = revs[r].revision_number /\ q <= r)
         IN <<top>> \o RevisionsDescending(revs, ids \ {top})

\* list_machine_document_revisions: the ids of the document's revisions,
\* most recent first
ListMachineDocumentRevisions(revs, document_id) ==
    RevisionsDescending(revs, RevisionIdsOf(revs, document_id))

\* _selected_revision: the id of the selected revision, 0 for None
SelectedRevision ==
    IF selected_document_id = 0 \/ rev_selection = 0 THEN 0
    ELSE IF rev_selection \in RevisionIdsOf(revisions, selected_document_id)
    THEN rev_selection ELSE 0

GetCurrentRevisionOldest ==
    IF selected_document_id = 0 THEN 0
    ELSE IF ListMachineDocumentRevisions(revisions, selected_document_id) = <<>> THEN 0
    ELSE ListMachineDocumentRevisions(revisions, selected_document_id)[
             Len(ListMachineDocumentRevisions(revisions, selected_document_id))]

\* _get_current_revision: the first of the list, 0 for None
GetCurrentRevision ==
    IF selected_document_id = 0 THEN 0
    ELSE IF ListMachineDocumentRevisions(revisions, selected_document_id) = <<>> THEN 0
    ELSE ListMachineDocumentRevisions(revisions, selected_document_id)[1]

ExportRevisionUnchecked(op, rev_id, target_dir) ==
    IF target_dir = ""
    THEN /\ last' = Outcome(op, <<"cancelled">>)
         /\ exported' = NoExport
    ELSE /\ exported' =
               [name |-> <<documents[selected_document_id].name,
                           revisions[rev_id].revision_number,
                           StoredSuffix(revisions[rev_id].stored_path)>>,
                bytes |-> IF revisions[rev_id].stored_path \in DOMAIN storage
                          THEN storage[revisions[rev_id].stored_path]
                          ELSE "none"]
         /\ last' = OutcomeOf(op, <<"ok">>, <<selected_document_id, rev_id>>)

\* _export_revision; target_dir is what the folder dialog returned
ExportRevision(op, rev_id, target_dir) ==
    IF target_dir = ""
    THEN /\ last' = Outcome(op, <<"cancelled">>)
         /\ exported' = NoExport
    ELSE IF revisions[rev_id].stored_path \notin DOMAIN storage
    THEN /\ last' = Outcome(op, <<"not_found">>)
         /\ exported' = NoExport
    ELSE /\ exported' =
               [name |-> <<documents[selected_document_id].name,
                           revisions[rev_id].revision_number,
                           StoredSuffix(revisions[rev_id].stored_path)>>,
                bytes |-> storage[revisions[rev_id].stored_path]]
         /\ last' = OutcomeOf(op, <<"ok">>, <<selected_document_id, rev_id>>)

\* _export_current
ExportCurrent(target_dir) ==
    /\ IF GetCurrentRevision = 0
       THEN /\ last' = Outcome("export_current", <<"select_first">>)
            /\ exported' = NoExport
       ELSE ExportRevision("export_current", GetCurrentRevision, target_dir)
    /\ UNCHANGED <<tables, clock, fixed, filters, selection, faults>>

\* _export_selected_revision
ExportSelectedRevision(target_dir) ==
    /\ IF SelectedRevision = 0
       THEN /\ last' = Outcome("export_selected", <<"select_first">>)
            /\ exported' = NoExport
       ELSE ExportRevision("export_selected", SelectedRevision, target_dir)
    /\ UNCHANGED <<tables, clock, fixed, filters, selection, faults>>

\* "file_hash = _hash_file(str(stored_path))": the hash recall records
RecallHash(revs, rev_id, fs) == HashFile(fs[revs[rev_id].stored_path])

RecallSourceMissingNever(rev_id) == FALSE

\* "if not stored_path.exists()" of _recall_selected
RecallSourceMissing(rev_id) == revisions[rev_id].stored_path \notin DOMAIN storage

\* _recall_selected; fault as for a source file.  shutil.copy2 raises when a
\* call raises for an outside reason and when its source does not exist.
RecallSelected(fault) ==
    /\ IF ReadonlyReturns
       THEN /\ last' = Outcome("recall", <<"readonly">>)
            /\ UNCHANGED <<revisions, storage, dirs, selection, faults>>
       ELSE IF SelectedRevision = 0
       THEN /\ last' = Outcome("recall", <<"select_first">>)
            /\ UNCHANGED <<revisions, storage, dirs, selection, faults>>
       ELSE IF RecallSourceMissing(SelectedRevision)
       THEN /\ last' = Outcome("recall", <<"not_found">>)
            /\ UNCHANGED <<revisions, storage, dirs, selection, faults>>
       ELSE IF ~HasLineMachine
       THEN /\ last' = Outcome("recall", <<"selection_required">>)
            /\ UNCHANGED <<revisions, storage, dirs, selection, faults>>
       ELSE LET revision == revisions[SelectedRevision]
                doc == documents[selected_document_id]
                revision_number == RevisionNumberFor(revisions, selected_document_id)
                target_dir == TargetDir(Strip(line_var), Strip(machine_var),
                                        doc.doc_type, doc.name)
                new_path == TargetPath(Strip(line_var), Strip(machine_var),
                                       doc.doc_type, doc.name, revision_number,
                                       clock, StoredSuffix(revision.stored_path))
                fs1 == CopyFile(storage, new_path, storage[revision.stored_path])
                row == [document_id |-> selected_document_id,
                        revision_number |-> revision_number,
                        stored_path |-> new_path,
                        original_filename |-> revision.original_filename,
                        content_hash |-> RecallHash(revisions, SelectedRevision, fs1),
                        created_by |-> User,
                        notes |-> RecallNotes]
            IN /\ dirs' = dirs \cup {target_dir}
               /\ faults' = IF fault = "none" THEN faults ELSE faults + 1
               /\ IF ~AppendReached(fault # "copy"
                                    /\ revision.stored_path \in DOMAIN storage)
                  THEN /\ last' = OutcomeOf("recall", <<"copy_failed">>,
                                          <<selected_document_id, SelectedRevision>>)
                       /\ UNCHANGED <<revisions, storage, selection>>
                  ELSE IF ~(fault # "append" /\ AddRevisionAccepts(revisions,
                                            selected_document_id, revision_number))
                  THEN /\ storage' = fs1
                       /\ last' = OutcomeOf("recall", <<"append_failed">>,
                                          <<selected_document_id, SelectedRevision>>)
                       /\ UNCHANGED <<revisions, selection>>
                  ELSE /\ storage' = fs1
                       /\ revisions' = AddMachineDocumentRevision(revisions, row)
                       /\ selected_document_id' = 0
                       /\ rev_selection' = 0
                       /\ last' = OutcomeOf("recall", <<"ok">>,
                                          <<selected_document_id, SelectedRevision>>)
    /\ exported' = NoExport
    /\ UNCHANGED <<documents, clock, fixed, filters>>

DeleteDocumentPurging(confirm) ==
    /\ ~readonly /\ selected_document_id # 0 /\ confirm
    /\ documents' = SetMachineDocumentActive(documents, selected_document_id, FALSE)
    /\ storage' =
          [p \in {q \in DOMAIN storage :
                    \A r \in RevisionIdsOf(revisions, selected_document_id) :
                        revisions[r].stored_path # q} |-> storage[p]]
    /\ selected_document_id' = 0
    /\ rev_selection' = 0
    /\ last' = OutcomeOf("delete", <<"ok">>, <<selected_document_id>>)
    /\ exported' = NoExport
    /\ UNCHANGED <<revisions, dirs, clock, fixed, filters, faults>>

\* _delete_document; confirm is the answer to "Mark this document as inactive?"
DeleteDocument(confirm) ==
    /\ IF ReadonlyReturns
       THEN /\ last' = Outcome("delete", <<"readonly">>)
            /\ UNCHANGED <<documents, selection>>
       ELSE IF selected_document_id = 0
       THEN /\ last' = Outcome("delete", <<"select_first">>)
            /\ UNCHANGED <<documents, selection>>
       ELSE IF ~confirm
       THEN /\ last' = Outcome("delete", <<"cancelled">>)
            /\ UNCHANGED <<documents, selection>>
       ELSE /\ documents' = SetMachineDocumentActive(documents, selected_document_id, FALSE)
            /\ selected_document_id' = 0
            /\ rev_selection' = 0
            /\ last' = OutcomeOf("delete", <<"ok">>, <<selected_document_id>>)
    /\ exported' = NoExport
    /\ UNCHANGED <<revisions, storage, dirs, clock, fixed, filters, faults>>

----------------------------------------------------------------------------
(* Spec: the single writer session, every call going through *)

\* the file dialog returns one file, or none (cancelled)
Batches(doc_type) ==
    {<<>>} \cup {<<f>> : f \in IF doc_type = "program" THEN HealthyFiles ELSE PrintFiles}

\* the revisions appended, documents deactivated, calls that raised, seconds
\* elapsed and restarts so far
Size ==
    Len(revisions) + Cardinality({d \in 1..Len(documents) : ~documents[d].active})
        + faults + clock + Len(restarts)

\* the behaviour may still grow within the bound
MayGrow == Size < MaxSize

Next ==
    \/ \E line \in ListLines : SelectLine(line)
    \/ \E d \in 1..Len(documents) : SelectDocument(d)
    \/ \E r \in 1..Len(revisions) : SelectRevision(r)
    \/ \E t \in DocTypes : \E paths \in Batches(t) : MayGrow /\ ImportDocuments(t, paths)
    \/ \E dir \in {"", "out"} : ExportCurrent(dir)
    \/ \E dir \in {"", "out"} : ExportSelectedRevision(dir)
    \/ MayGrow /\ RecallSelected("none")
    \/ \E confirm \in BOOLEAN : MayGrow /\ DeleteDocument(confirm)
    \/ MayGrow /\ Tick

Spec == Init /\ [][Next]_vars

----------------------------------------------------------------------------
(* SpecFaults: the single writer session in which calls may raise; the      *)
(* exports, which write nothing under DATA_DIR, are left out               *)

FaultBatches(doc_type) ==
    Batches(doc_type) \cup
        {<<f>> : f \in IF doc_type = "program" THEN FaultyFiles ELSE {}}

NextFaults ==
    \/ \E line \in ListLines : SelectLine(line)
    \/ \E d \in 1..Len(documents) : SelectDocument(d)
    \/ \E r \in 1..Len(revisions) : SelectRevision(r)
    \/ \E t \in DocTypes : \E paths \in FaultBatches(t) :
          /\ MayGrow
          /\ ImportDocuments(t, paths)
    \/ \E fault \in Faults :
          /\ MayGrow
          /\ RecallSelected(fault)
    \/ \E confirm \in BOOLEAN : MayGrow /\ DeleteDocument(confirm)
    \/ MayGrow /\ Tick

SpecFaults == Init /\ [][NextFaults]_vars

----------------------------------------------------------------------------
(* SpecBatch: the single writer session importing one or two files at once, *)
(* calls failing or not                                                     *)

\* the file dialog returns up to two files
BatchesOfTwo(doc_type) ==
    FaultBatches(doc_type) \cup
        {f \o g : f, g \in FaultBatches(doc_type) \ {<<>>}}

NextBatch ==
    \/ \E line \in ListLines : SelectLine(line)
    \/ \E t \in DocTypes : \E paths \in BatchesOfTwo(t) :
          /\ Size + Len(paths) <= MaxSize
          /\ ImportDocuments(t, paths)
    \/ MayGrow /\ Tick

SpecBatch == Init /\ [][NextBatch]_vars

----------------------------------------------------------------------------
(* SpecLoss: the single writer session on a storage directory from which    *)
(* files disappear for an outside reason (removed by hand, a lost disk)     *)

\* a stored file is removed from outside the program
LoseFile(path) ==
    /\ path \in DOMAIN storage
    /\ storage' = [p \in DOMAIN storage \ {path} |-> storage[p]]
    /\ faults' = faults + 1
    /\ last' = Outcome("lose_file", <<>>)
    /\ exported' = NoExport
    /\ UNCHANGED <<documents, revisions, dirs, clock, fixed, filters, selection>>

NextLoss ==
    \/ \E line \in ListLines : SelectLine(line)
    \/ \E d \in 1..Len(documents) : SelectDocument(d)
    \/ \E r \in 1..Len(revisions) : SelectRevision(r)
    \/ \E t \in DocTypes : \E paths \in Batches(t) : MayGrow /\ ImportDocuments(t, paths)
    \/ \E dir \in {"", "out"} : ExportCurrent(dir)
    \/ \E dir \in {"", "out"} : ExportSelectedRevision(dir)
    \/ MayGrow /\ RecallSelected("none")
    \/ \E path \in DOMAIN storage : MayGrow /\ LoseFile(path)

SpecLoss == Init /\ [][NextLoss]_vars

----------------------------------------------------------------------------
(* SpecRace: two sessions on one DATA_DIR, with the same line and machine   *)
(* selected.  Each call into app/db.py and each file operation of           *)
(* _save_document and _recall_selected is one step; nothing keeps the steps *)
(* of the two sessions apart.                                               *)

\* what the steps of a call leave alone on the screen
screen == <<clock, readonly, filters, selection, exported, faults, restarts, app>>

\* the calls under way
InFlight == {w \in Writers : sessions[w].pc # "idle"}

\* the name of the document a call stores under: the normalized file name for
\* an import, the name shown in the document tree for a recall
SessionDocName(ses) ==
    IF ses.op = "import" THEN NormalizeDocName(Basename(ses.src.path))
    ELSE documents[ses.document_id].name

\* _import_documents up to _save_document's
\* find_machine_document_by_name_or_hash, for one file
SaveDocumentFind(w, doc_type, src) ==
    /\ sessions[w].pc = "idle"
    /\ ~readonly
    /\ HasLineMachine
    /\ LET existing == FindMachineDocumentByNameOrHash(
                            documents, revisions, Strip(line_var), Strip(machine_var),
                            doc_type, NormalizeDocName(Basename(src.path)),
                            HashFile(src.bytes))
       IN sessions' = [sessions EXCEPT ![w] =
              [IdleSession EXCEPT
                  !.pc = IF ResolveCreates(existing) THEN "create" ELSE "number",
                  !.op = "import", !.src = src, !.doc_type = doc_type,
                  !.document_id = existing,
                  !.file_hash = HashFile(src.bytes)]]
    /\ UNCHANGED <<tables, screen, last>>

\* create_machine_document; a refusal leaves _save_document and is reported
SaveDocumentCreate(w) ==
    /\ sessions[w].pc = "create"
    /\ LET ses == sessions[w]
           doc_name == SessionDocName(ses)
       IN IF CreateRefused(documents, Strip(line_var), Strip(machine_var),
                           ses.doc_type, doc_name)
          THEN /\ sessions' = [sessions EXCEPT ![w] = IdleSession]
               /\ last' = OutcomeOf("import", <<"create_failed">>,
                                    <<ses.doc_type, <<ses.src>>>>)
               /\ UNCHANGED documents
          ELSE /\ documents' = CreateMachineDocument(
                                   documents, Strip(line_var), Strip(machine_var),
                                   ses.doc_type, doc_name, User)
               /\ sessions' = [sessions EXCEPT
                                  ![w].pc = "number",
                                  ![w].document_id = Len(documents) + 1]
               /\ UNCHANGED last
    /\ UNCHANGED <<revisions, storage, dirs, screen>>

\* _recall_selected up to get_next_machine_document_revision_number, for the
\* document and the revision selected in the session
RecallBegin(w, doc_id, rev_id) ==
    /\ sessions[w].pc = "idle"
    /\ ~readonly
    /\ HasLineMachine
    /\ doc_id \in ListMachineDocuments(documents, Strip(line_var), Strip(machine_var))
    /\ rev_id \in RevisionIdsOf(revisions, doc_id)
    /\ revisions[rev_id].stored_path \in DOMAIN storage
    /\ sessions' = [sessions EXCEPT ![w] =
           [IdleSession EXCEPT
               !.pc = "number", !.op = "recall",
               !.doc_type = documents[doc_id].doc_type,
               !.document_id = doc_id, !.source = rev_id]]
    /\ UNCHANGED <<tables, screen, last>>

\* get_next_machine_document_revision_number
SessionNextRevisionNumber(w) ==
    /\ sessions[w].pc = "number"
    /\ sessions' = [sessions EXCEPT
           ![w].pc = "store",
           ![w].revision_number =
               RevisionNumberFor(revisions, sessions[w].document_id)]
    /\ UNCHANGED <<tables, screen, last>>

\* _store_file
SessionStoreFile(w) ==
    /\ sessions[w].pc = "store"
    /\ LET ses == sessions[w]
           doc_name == SessionDocName(ses)
           ext == IF ses.op = "import" THEN Suffix(Basename(ses.src.path))
                  ELSE StoredSuffix(revisions[ses.source].stored_path)
           bytes == IF ses.op = "import" THEN ses.src.bytes
                    ELSE storage[revisions[ses.source].stored_path]
           target_path == TargetPath(Strip(line_var), Strip(machine_var),
                                     ses.doc_type, doc_name, ses.revision_number,
                                     clock, ext)
       IN /\ dirs' = dirs \cup {TargetDir(Strip(line_var), Strip(machine_var),
                                          ses.doc_type, doc_name)}
          /\ storage' = CopyFile(storage, target_path, bytes)
          /\ sessions' = [sessions EXCEPT
                 ![w].pc = IF ses.op = "import" THEN "append" ELSE "hash",
                 ![w].stored_path = target_path]
    /\ UNCHANGED <<documents, revisions, screen, last>>

\* "file_hash = _hash_file(str(stored_path))" of _recall_selected
SessionRecallHash(w) ==
    /\ sessions[w].pc = "hash"
    /\ sessions' = [sessions EXCEPT
           ![w].pc = "append",
           ![w].file_hash = RecallHash(revisions, sessions[w].source, storage)]
    /\ UNCHANGED <<tables, screen, last>>

\* add_machine_document_revision; a refusal leaves the call and is reported
SessionAppend(w) ==
    /\ sessions[w].pc = "append"
    /\ LET ses == sessions[w]
           row == [document_id |-> ses.document_id,
                   revision_number |-> ses.revision_number,
                   stored_path |-> ses.stored_path,
                   original_filename |->
                       IF ses.op = "import" THEN Basename(ses.src.path)
                       ELSE revisions[ses.source].original_filename,
                   content_hash |-> ses.file_hash,
                   created_by |-> User,
                   notes |-> IF ses.op = "import" THEN NoNotes ELSE RecallNotes]
           input == IF ses.op = "import" THEN <<ses.doc_type, <<ses.src>>>>
                    ELSE <<ses.document_id, ses.source>>
       IN IF AddRevisionAccepts(revisions, ses.document_id, ses.revision_number)
          THEN /\ revisions' = AddMachineDocumentRevision(revisions, row)
               /\ last' = OutcomeOf(ses.op, <<"ok">>, input)
          ELSE /\ last' = OutcomeOf(ses.op, <<"append_failed">>, input)
               /\ UNCHANGED revisions
    /\ sessions' = [sessions EXCEPT ![w] = IdleSession]
    /\ UNCHANGED <<documents, storage, dirs, screen>>

\* a call may begin while the calls under way leave room within the bound
MayBegin == Size + Cardinality(InFlight) < MaxSize

NextRace ==
    \/ \E line \in ListLines : SelectLine(line)
    \/ \E w \in Writers, src \in HealthyFiles :
          MayBegin /\ SaveDocumentFind(w, "program", src)
    \/ \E w \in Writers : SaveDocumentCreate(w)
    \/ \E w \in Writers, d \in 1..Len(documents), r \in 1..Len(revisions) :
          MayBegin /\ RecallBegin(w, d, r)
    \/ \E w \in Writers : SessionNextRevisionNumber(w)
    \/ \E w \in Writers : SessionStoreFile(w)
    \/ \E w \in Writers : SessionRecallHash(w)
    \/ \E w \in Writers : SessionAppend(w)

SpecRace == Init /\ [][NextRace]_vars

----------------------------------------------------------------------------
(* SpecNames: the single writer session importing programs under file names *)
(* that normalize to different document names, and recalling them          *)

Str_a_b_t == <<"a", "_", "b", ".", "t">>
Str_a_b_n == <<"a", " ", " ", "b", ".", "n">>
Str_x_t == <<"x", ".", "t">>

\* the files picked: "a_b.t", "a  b.n" and "x.t", each with either content
NamedFiles ==
    [path : {<<"/">> \o Str_a_b_t, <<"/">> \o Str_a_b_n, <<"/">> \o Str_x_t},
     bytes : Contents, fault : {"none"}]

NextNames ==
    \/ \E line \in ListLines : SelectLine(line)
    \/ \E d \in 1..Len(documents) : SelectDocument(d)
    \/ \E r \in 1..Len(revisions) : SelectRevision(r)
    \/ \E f \in NamedFiles : MayGrow /\ ImportDocuments("program", <<f>>)
    \/ MayGrow /\ RecallSelected("none")

SpecNames == Init /\ [][NextNames]_vars

----------------------------------------------------------------------------
(* SpecRestart: the single writer session in a process that may be closed   *)
(* and started again, by a user who may or may not edit "Master Data"       *)

\* The process ends and a new one starts on the same DATA_DIR: the tables and
\* the storage are as they were, the controller and the screen are built anew
\* (App.__init__, MachineHistoryUI.__init__), for whoever logs in next.
Restart ==
    /\ restarts' = Append(restarts, Len(revisions))
    /\ app' = AppInit
    /\ readonly' \in BOOLEAN
    /\ line_var' = <<>>
    /\ machine_var' = <<>>
    /\ selected_document_id' = 0
    /\ rev_selection' = 0
    /\ exported' = NoExport
    /\ last' = Outcome("restart", <<>>)
    /\ UNCHANGED <<tables, clock, faults, sessions>>

NextRestart ==
    \/ \E line \in ListLines : SelectLine(line)
    \/ \E d \in 1..Len(documents) : SelectDocument(d)
    \/ \E r \in 1..Len(revisions) : SelectRevision(r)
    \/ \E paths \in Batches("program") : MayGrow /\ ImportDocuments("program", paths)
    \/ \E dir \in {"", "out"} : ExportCurrent(dir)
    \/ \E dir \in {"", "out"} : ExportSelectedRevision(dir)
    \/ MayGrow /\ RecallSelected("none")
    \/ MayGrow /\ DeleteDocument(TRUE)
    \/ MayGrow /\ Restart

SpecRestart == Init /\ [][NextRestart]_vars

----------------------------------------------------------------------------
(* SpecNormalize: _normalize_doc_name applied to a file name *)

\* what a file name is made of: other characters, underscore, blank, tab,
\* dot and backslash (which POSIX allows in a file name)
FileNameTokens == {"a", "b", "_", " ", "\t", ".", "\\"}

\* the file names of up to MaxNameLen tokens; "." and ".." name directories
FileNames ==
    UNION {[1..n -> FileNameTokens] : n \in 1..MaxNameLen} \ {<<".">>, <<".", ".">>}

\* a file name has been picked
InitNormalize ==
    /\ documents = <<>>
    /\ revisions = <<>>
    /\ storage = <<>>
    /\ dirs = {}
    /\ clock = 0
    /\ readonly = FALSE
    /\ line_var = <<>>
    /\ machine_var = <<>>
    /\ selected_document_id = 0
    /\ rev_selection = 0
    /\ exported = NoExport
    /\ faults = 0
    /\ last \in {OutcomeOf("filename", <<>>, filename) : filename \in FileNames}
    /\ sessions = [w \in Writers |-> IdleSession]
    /\ restarts = <<>>
    /\ app = AppInit

\* "doc_name = _normalize_doc_name(os.path.basename(source_path))"
ApplyNormalizeDocName ==
    /\ last.op = "filename"
    /\ last' = OutcomeOf("normalize", NormalizeDocName(Basename(last.input)), last.input)
    /\ UNCHANGED <<tables, clock, fixed, filters, selection, exported, faults>>

NextNormalize == ApplyNormalizeDocName

SpecNormalize == InitNormalize /\ [][NextNormalize]_vars

----------------------------------------------------------------------------
(* SpecSession: the App controller of app/ui_login.py and its login page    *)

\* what the handlers of the controller leave alone
store == <<tables, clock, readonly, filters, selection, exported, faults,
           sessions, restarts>>

\* the role values tried: None, blank, aliases in some case and with blanks
\* around, a key of ROLE_TO_UI, and a role that has no screen
RoleValues ==
    {None, <<" ">>, <<" ", "QC", " ">>, Str_Top, <<"tool", "_", "change">>,
     <<"Guest">>}

\* the user names given to login, and typed in the login page
UserNames == {<<"u", " ">>, <<>>}

LineValues == {None, Str_L1}

\* the records get_user may return: "line" may be missing
UserRecords ==
    [password : {"pw"}, role : RoleValues, line : {Str_L1}]
        \cup [password : {"pw"}, role : RoleValues]

\* what stands for the record when get_user returned None
NoRecord == [password |-> "pw", role |-> None]

\* dict.get(key, default)
Get(rec, key, default) == IF key \in DOMAIN rec THEN rec[key] ELSE default

\* App.login called with these arguments
Login(username, role, line) ==
    /\ app' = AppLogin(app, username, role, line)
    /\ last' = OutcomeOf("login", <<app'.page>>, <<username, role, line>>)
    /\ UNCHANGED store

\* App.toggle_theme
ToggleTheme ==
    /\ app' = AppToggleTheme(app)
    /\ last' = OutcomeOf("toggle_theme", <<app'.page>>, <<>>)
    /\ UNCHANGED store

\* App.route_role
RouteRole ==
    /\ app' = AppRouteRole(app)
    /\ last' = OutcomeOf("route_role", <<app'.page>>, <<app.role>>)
    /\ UNCHANGED store

\* App.logout
Logout ==
    /\ app' = AppLogout(app)
    /\ last' = OutcomeOf("logout", <<app'.page>>, <<>>)
    /\ UNCHANGED store

\* LoginPage.check: u and p are the entries, found and rec what get_user(u)
\* returned
Check(u, p, found, rec) ==
    /\ app.page = "LoginPage"
    /\ IF Strip(u) = <<>>
       THEN /\ last' = OutcomeOf("check", <<"enter_username">>, <<u, p, found, rec>>)
            /\ UNCHANGED app
       ELSE IF ~found \/ Get(rec, "password", "") # p
       THEN /\ last' = OutcomeOf("check", <<"invalid_credentials">>, <<u, p, found, rec>>)
            /\ UNCHANGED app
       ELSE IF NormalizeRole(Get(rec, "role", <<>>)) \notin DOMAIN ROLE_TO_UI
       THEN /\ last' = OutcomeOf("check", <<"role_error">>, <<u, p, found, rec>>)
            /\ UNCHANGED app
       ELSE /\ app' = AppLogin(app, Strip(u), NormalizeRole(Get(rec, "role", <<>>)),
                               Get(rec, "line", Str_Both))
            /\ last' = OutcomeOf("check", <<"welcome">>, <<u, p, found, rec>>)
    /\ UNCHANGED store

NextSession ==
    \/ \E username \in UserNames, role \in RoleValues, line \in LineValues :
          Login(username, role, line)
    \/ ToggleTheme
    \/ RouteRole
    \/ Logout
    \/ \E u \in UserNames, p \in {"pw", "bad"}, rec \in UserRecords :
          Check(u, p, TRUE, rec)
    \/ \E u \in UserNames, p \in {"pw", "bad"} : Check(u, p, FALSE, NoRecord)

SpecSession == Init /\ [][NextSession]_vars

----------------------------------------------------------------------------
(* Claims *)

\* the revision rows of a document
RevisionsOfDocument(d) == {r \in 1..Len(revisions) : revisions[r].document_id = d}

\* C1: for every document the set of its revision numbers is exactly 1..N,
\* N its number of revisions: numbering starts at 1, has no gap and no duplicate.
C1_RevisionNumbersContiguous ==
    \A d \in 1..Len(documents) :
        {revisions[r].revision_number : r \in RevisionsOfDocument(d)}
            = 1..Cardinality(RevisionsOfDocument(d))

\* a document with two revisions, one of them recalled, that was deactivated
C1_Witness ==
    \E d \in 1..Len(documents) :
        /\ Cardinality(RevisionsOfDocument(d)) = 2
        /\ \E r \in RevisionsOfDocument(d) : revisions[r].notes = RecallNotes
        /\ ~documents[d].active

\* the documents of the target (line_var, machine_var, t) that the file matches:
\* by its normalized name, or by the content hash of one of their revisions
C2_Matches(t, f) ==
    {d \in 1..Len(documents) :
        /\ documents[d].line = line_var
        /\ documents[d].machine = machine_var
        /\ documents[d].doc_type = t
        /\ \/ documents[d].name = NormalizeDocName(f.path)
           \/ \E r \in RevisionsOfDocument(d) :
                 revisions[r].content_hash = HashFile(f.bytes)}

\* C2: an import whose file matches an existing document of the target by name
\* or by content hash creates no document and appends exactly one revision,
\* to a document it matches.
C2_MatchedImportAddsRevision ==
    [][(last'.op = "import" /\ last'.input # <<>>)
          => LET t == last'.input[1]
                 f == last'.input[2][1]
             IN C2_Matches(t, f) # {}
                => /\ documents' = documents
                   /\ Len(revisions') = Len(revisions) + 1
                   /\ SubSeq(revisions', 1, Len(revisions)) = revisions
                   /\ revisions'[Len(revisions')].document_id \in C2_Matches(t, f)]_vars

\* a document that got a revision by a name match with other bytes and one by a
\* hash match under another file name
C2_Witness ==
    \E d \in 1..Len(documents) : \E r1, r2, r3 \in RevisionsOfDocument(d) :
        /\ revisions[r1].revision_number = 1
        /\ revisions[r2].notes = NoNotes /\ revisions[r2].revision_number > 1
        /\ NormalizeDocName(revisions[r2].original_filename) = documents[d].name
        /\ revisions[r2].content_hash # revisions[r1].content_hash
        /\ revisions[r3].notes = NoNotes /\ revisions[r3].revision_number > 1
        /\ NormalizeDocName(revisions[r3].original_filename) # documents[d].name

\* C3: no two revisions have the same stored_path.
C3_StoredPathsUnique ==
    \A r1, r2 \in 1..Len(revisions) :
        r1 # r2 => revisions[r1].stored_path # revisions[r2].stored_path


\* C4: the bytes at a stored path are never changed or removed by a later
\* operation.
C4_StoredBytesNeverChange ==
    [][\A p \in DOMAIN storage :
          p \in DOMAIN storage' /\ storage'[p] = storage[p]]_vars

\* C5: the file an export writes hashes to the recorded content_hash of the
\* revision exported.
C5_ExportMatchesRecordedHash ==
    (last.op \in {"export_current", "export_selected"} /\ last.outcome = <<"ok">>)
        => HashFile(exported.bytes) = revisions[last.input[2]].content_hash

\* C6: every file in storage is the stored_path of some revision, also after an
\* import whose ledger append failed.
C6_NoOrphanedFiles ==
    \A p \in DOMAIN storage :
        \E r \in 1..Len(revisions) : revisions[r].stored_path = p

\* C7: an import whose copy into storage fails appends no revision.
C7_CopyFailureAppendsNothing ==
    [][(last'.op = "import" /\ last'.input # <<>>
            /\ last'.input[2][1].fault = "copy")
          => revisions' = revisions]_vars

\* an import into a ledger that has revisions ended in a failed copy
C7_Witness ==
    /\ last.op = "import" /\ last.input # <<>>
    /\ last.input[2][1].fault = "copy"
    /\ last.outcome = <<"copy_failed">>
    /\ Len(revisions) >= 1

\* C8: every revision in the ledger has its file in storage at its stored_path.
C8_RevisionFilesPresent ==
    \A r \in 1..Len(revisions) : revisions[r].stored_path \in DOMAIN storage

\* an imported and a recalled revision, after a call has raised
C8_Witness ==
    /\ faults = 1
    /\ \E r1, r2 \in 1..Len(revisions) :
          revisions[r1].notes = NoNotes /\ revisions[r2].notes = RecallNotes

\* C9: a recall whose source file no longer hashes to the recorded content_hash
\* ends in an integrity error, appends no revision and writes no file.
C9_RecallChecksIntegrity ==
    [][(last'.op = "recall" /\ last'.input # <<>>)
          => LET k == last'.input[2]
             IN HashFile(storage[revisions[k].stored_path]) # revisions[k].content_hash
                => /\ last'.outcome = <<"integrity_error">>
                   /\ revisions' = revisions
                   /\ storage' = storage]_vars

\* C10: a successful recall of revision k of document d creates no document and
\* appends exactly one revision: of d, numbered d's maximum plus one, with k's
\* content_hash and original_filename and the notes of a recall.
C10_RecallAppendsCopyOfSource ==
    [][(last'.op = "recall" /\ last'.outcome = <<"ok">>)
          => LET d == last'.input[1]
                 k == last'.input[2]
                 new == revisions'[Len(revisions')]
             IN /\ documents' = documents
                /\ Len(revisions') = Len(revisions) + 1
                /\ SubSeq(revisions', 1, Len(revisions)) = revisions
                /\ revisions[k].document_id = d
                /\ new.document_id = d
                /\ \A r \in RevisionsOfDocument(d) :
                      revisions[r].revision_number < new.revision_number
                /\ \E r \in RevisionsOfDocument(d) :
                      revisions[r].revision_number + 1 = new.revision_number
                /\ new.content_hash = revisions[k].content_hash
                /\ new.original_filename = revisions[k].original_filename
                /\ new.notes = RecallNotes]_vars

\* C11: the ledger is append-only: every step keeps every revision row, with
\* all its fields, at its place; rows are only added at the end.
C11_LedgerAppendOnly ==
    [][/\ Len(revisions') >= Len(revisions)
       /\ SubSeq(revisions', 1, Len(revisions)) = revisions]_vars

\* an export has run on a ledger that holds an imported and a recalled revision
C11_Witness ==
    /\ last.op \in {"export_current", "export_selected"}
    /\ last.outcome = <<"ok">>
    /\ \E r1, r2 \in 1..Len(revisions) :
          revisions[r1].notes = NoNotes /\ revisions[r2].notes = RecallNotes

\* how _save_document ends for a file in a single writer session
C12_Expected(f) ==
    IF f.fault = "none" THEN "ok"
    ELSE IF f.fault = "copy" THEN "copy_failed" ELSE "append_failed"

C12_GoesThrough(f) == f.fault = "none"

\* C12: a batch import attempts every file once, in order: it reports one
\* outcome per file, a failure for each file that fails and for no other, and
\* appends the revisions of all the files that do not fail, in batch order,
\* whatever failed before them.
C12_BatchRunsToEnd ==
    [][(last'.op = "import" /\ last'.input # <<>>)
          => LET paths == last'.input[2]
                 oks == SelectSeq(paths, C12_GoesThrough)
             IN /\ Len(last'.outcome) = Len(paths)
                /\ \A i \in 1..Len(paths) :
                      last'.outcome[i] = C12_Expected(paths[i])
                /\ Len(revisions') = Len(revisions) + Len(oks)
                /\ \A j \in 1..Len(oks) :
                      LET new == revisions'[Len(revisions) + j]
                      IN /\ new.original_filename = Basename(oks[j].path)
                         /\ new.content_hash = HashFile(oks[j].bytes)]_vars

\* a batch of two files whose first file failed and whose second was imported
C12_Witness ==
    /\ last.op = "import" /\ last.input # <<>>
    /\ Len(last.input[2]) = 2
    /\ last.input[2][1].fault # "none"
    /\ last.outcome[1] # "ok"
    /\ last.outcome[2] = "ok"
    /\ revisions[Len(revisions)].original_filename = Basename(last.input[2][2].path)

\* C13: deactivating a document sets that document's active flag to false and
\* changes nothing else: every other field and every other document, the
\* revisions, the files and the directories in storage stay as they are.
C13_DeactivateChangesOnlyFlag ==
    [][(last'.op = "delete" /\ last'.outcome = <<"ok">>)
          => LET d == last'.input[1]
             IN /\ documents' = [documents EXCEPT ![d].active = FALSE]
                /\ revisions' = revisions
                /\ storage' = storage
                /\ dirs' = dirs]_vars

\* a document with a revision was deactivated next to another document with
\* a revision
C13_Witness ==
    /\ last.op = "delete" /\ last.outcome = <<"ok">>
    /\ ~documents[last.input[1]].active
    /\ RevisionsOfDocument(last.input[1]) # {}
    /\ \E d \in 1..Len(documents) :
          d # last.input[1] /\ documents[d].active /\ RevisionsOfDocument(d) # {}

\* C14: documents are never removed and deactivation is one-way: every step
\* keeps every document row at its id, unchanged or with its active flag
\* turned to false; a flag that is false stays false.
C14_DocumentsStayAndStayInactive ==
    [][/\ Len(documents') >= Len(documents)
       /\ \A d \in 1..Len(documents) :
             \/ documents'[d] = documents[d]
             \/ documents'[d] = [documents[d] EXCEPT !.active = FALSE]]_vars

\* a deactivated document got a further revision by an import
C14_Witness ==
    /\ last.op = "import" /\ last.outcome = <<"ok">>
    /\ \E d \in 1..Len(documents) :
          /\ ~documents[d].active
          /\ Cardinality(RevisionsOfDocument(d)) >= 2
          /\ revisions[Len(revisions)].document_id = d

\* the documents of the target (line_var, machine_var, t) named as the file
C15_ByName(t, f) ==
    {d \in 1..Len(documents) :
        /\ documents[d].line = line_var
        /\ documents[d].machine = machine_var
        /\ documents[d].doc_type = t
        /\ documents[d].name = NormalizeDocName(f.path)}

\* the documents of the target that have a revision with the file's hash
C15_ByHash(t, f) ==
    {d \in 1..Len(documents) :
        /\ documents[d].line = line_var
        /\ documents[d].machine = machine_var
        /\ documents[d].doc_type = t
        /\ \E r \in RevisionsOfDocument(d) :
              revisions[r].content_hash = HashFile(f.bytes)}

\* C15: an import resolves by name first: when a document of the target has
\* the file's normalized name the revision goes to that document, whichever
\* other document has the file's hash; the hash match decides only when no
\* document of the target has the name.
C15_NameMatchBeforeHashMatch ==
    [][(last'.op = "import" /\ last'.input # <<>>)
          => LET t == last'.input[1]
                 f == last'.input[2][1]
                 new == revisions'[Len(revisions')]
             IN /\ C15_ByName(t, f) # {}
                     => /\ Len(revisions') = Len(revisions) + 1
                        /\ new.document_id \in C15_ByName(t, f)
                /\ (C15_ByName(t, f) = {} /\ C15_ByHash(t, f) # {})
                     => /\ Len(revisions') = Len(revisions) + 1
                        /\ new.document_id \in C15_ByHash(t, f)]_vars

\* the last import went to the document with the file's name although only
\* another document of the target had the file's hash
C15_Witness ==
    /\ last.op = "import" /\ last.outcome = <<"ok">>
    /\ LET new == revisions[Len(revisions)]
           a == new.document_id
       IN /\ documents[a].name = NormalizeDocName(new.original_filename)
          /\ \A r \in 1..(Len(revisions) - 1) :
                revisions[r].document_id = a
                    => revisions[r].content_hash # new.content_hash
          /\ \E r \in 1..(Len(revisions) - 1) :
                /\ revisions[r].document_id # a
                /\ revisions[r].content_hash = new.content_hash
                /\ documents[revisions[r].document_id].doc_type = documents[a].doc_type
                /\ documents[revisions[r].document_id].line = documents[a].line
                /\ documents[revisions[r].document_id].machine = documents[a].machine

\* C16: no two documents, active or not, have the same identity
\* (line, machine, doc_type, name).
C16_DocumentIdentitiesUnique ==
    \A d1, d2 \in 1..Len(documents) :
        d1 # d2 =>
            <<documents[d1].line, documents[d1].machine,
              documents[d1].doc_type, documents[d1].name>>
          # <<documents[d2].line, documents[d2].machine,
              documents[d2].doc_type, documents[d2].name>>

\* a session was refused the creation of a document that another session had
\* created after both had resolved the name to nothing
C16_Witness ==
    /\ last.op = "import" /\ last.outcome = <<"create_failed">>
    /\ \E d \in 1..Len(documents) :
          documents[d].name = NormalizeDocName(last.input[2][1].path)

\* no two revisions of one document have the same revision_number
C19_NumbersUnique ==
    \A r1, r2 \in 1..Len(revisions) :
        (r1 # r2 /\ revisions[r1].document_id = revisions[r2].document_id)
            => revisions[r1].revision_number # revisions[r2].revision_number

\* session w is at add_machine_document_revision with a revision_number that
\* is not the document's current maximum plus one
C19_Stale(w) ==
    /\ sessions[w].pc = "append"
    /\ sessions[w].revision_number
           # 1 + Cardinality(RevisionsOfDocument(sessions[w].document_id))

\* C19: an append with a revision_number other than the document's maximum
\* plus one is refused and leaves the ledger unchanged; however the calls of
\* two sessions interleave, the ledger never holds two revisions of one
\* document with the same revision_number.
C19_StaleAppendRefused ==
    [][/\ C19_NumbersUnique'
       /\ \A w \in Writers :
             (C19_Stale(w) /\ sessions'[w].pc = "idle")
                 => /\ revisions' = revisions
                    /\ last'.outcome = <<"append_failed">>]_vars

\* two calls read the same next revision number of one document; one of them
\* appended it and the other was refused
C19_Witness ==
    /\ last.outcome = <<"append_failed">>
    /\ Len(revisions) >= 1
    /\ \A w \in Writers : sessions[w].pc = "idle"

\* C20: a call whose append is refused for a revision-number conflict goes
\* back to get_next_machine_document_revision_number and appends again; it
\* does not report the conflict to the operator.
C20_ConflictIsRetried ==
    [][\A w \in Writers :
          (C19_Stale(w) /\ sessions'[w] # sessions[w])
              => /\ sessions'[w].pc = "number"
                 /\ last' = last]_vars

\* C18: "Export Current" exports the revision of the selected document with
\* the highest revision_number, under a file name that carries that number.
C18_ExportCurrentIsLatest ==
    (last.op = "export_current" /\ last.outcome = <<"ok">>)
        => LET d == last.input[1]
               cur == last.input[2]
           IN /\ revisions[cur].document_id = d
              /\ \A r \in RevisionsOfDocument(d) :
                    revisions[r].revision_number <= revisions[cur].revision_number
              /\ exported.name[2] = revisions[cur].revision_number
              /\ exported.bytes = storage[revisions[cur].stored_path]

\* the current revision of a document with several revisions was exported
\* after a recall had made it
C18_Witness ==
    /\ last.op = "export_current" /\ last.outcome = <<"ok">>
    /\ Cardinality(RevisionsOfDocument(last.input[1])) >= 2
    /\ revisions[last.input[2]].notes = RecallNotes

\* the revision an export handler is about to export, 0 when it has none
C17_Revision(op) ==
    IF op = "export_current" THEN GetCurrentRevision ELSE SelectedRevision

\* C17: an export of a revision whose stored file is missing, into a folder
\* that was chosen, ends as not found: it writes no file and leaves the
\* catalog, the ledger, the storage and the selections of the screen as they
\* are, so that the screen goes on as before.
C17_ExportOfMissingFileNotFound ==
    [][(/\ last'.op \in {"export_current", "export_selected"}
        /\ last'.outcome # <<"cancelled">>
        /\ C17_Revision(last'.op) # 0
        /\ revisions[C17_Revision(last'.op)].stored_path \notin DOMAIN storage)
          => /\ last'.outcome = <<"not_found">>
             /\ exported' = NoExport
             /\ UNCHANGED <<tables, filters, selection>>]_vars

\* the selected revision was exported to a chosen folder after its file had
\* been lost, and the export ended as not found
C17_Witness ==
    /\ last.op = "export_selected" /\ last.outcome = <<"not_found">>
    /\ SelectedRevision # 0
    /\ revisions[SelectedRevision].stored_path \notin DOMAIN storage
    /\ exported = NoExport

----------------------------------------------------------------------------
\* C21: the stored_path of every revision lies in the directory
\* line/machine/doc_type/document-name of the document that owns the revision
\* (the owning document's name, not the imported file's), and its file name is
\* rev_<revision_number>_<timestamp><ext>; also for a revision attached by a
\* content-hash match under another file name, and for a recalled revision
C21_StoredUnderOwningDocument ==
    \A r \in 1..Len(revisions) :
        LET row == revisions[r]
            doc == documents[row.document_id]
        IN \E timestamp \in 0..clock :
              row.stored_path =
                  TargetPath(doc.line, doc.machine, doc.doc_type, doc.name,
                             row.revision_number, timestamp,
                             Suffix(row.original_filename))

----------------------------------------------------------------------------
\* the greatest revision_number the ledger holds for a document, 0 for none
C22_Max(d) ==
    IF RevisionsOfDocument(d) = {} THEN 0
    ELSE CHOOSE n \in {revisions[r].revision_number : r \in RevisionsOfDocument(d)} :
            \A r \in RevisionsOfDocument(d) : revisions[r].revision_number <= n

\* C22: the next revision number is read from the persisted ledger at every
\* import and recall, never from in-memory state: whatever restarts of the
\* process came before, an import or a recall that gets as far as acting on a
\* document whose greatest revision_number is N goes through and appends
\* revision N + 1
C22_NextNumberFromLedger ==
    [][ (last'.op \in {"import", "recall"} /\ last'.input # <<>>)
        => /\ last'.outcome = <<"ok">>
           /\ Len(revisions') = Len(revisions) + 1
           /\ SubSeq(revisions', 1, Len(revisions)) = revisions
           /\ revisions'[Len(revisions')].revision_number =
                  C22_Max(revisions'[Len(revisions')].document_id) + 1 ]_vars

\* after a restart, the first revision appended is revision 2 of a document
\* whose revision 1 was appended by the process before
C22_Witness ==
    /\ restarts # <<>>
    /\ last.op \in {"import", "recall"}
    /\ last.outcome = <<"ok">>
    /\ Len(revisions) = restarts[Len(restarts)] + 1
    /\ revisions[Len(revisions)].revision_number = 2

----------------------------------------------------------------------------
\* C25: on a read-only screen the import, recall and deactivate handlers
\* return without any effect, so that no sequence of them changes the catalog,
\* the ledger or the storage, while export remains available: an export of a
\* revision to a chosen folder writes that revision's bytes
C25_ReadonlyHandlersHaveNoEffect ==
    [][ readonly =>
          /\ last'.op \in {"import", "recall", "delete"}
                => /\ UNCHANGED <<documents, revisions, storage, dirs>>
                   /\ last'.outcome = <<"readonly">>
          /\ (/\ last'.op = "export_current"
              /\ GetCurrentRevision # 0
              /\ last'.outcome # <<"cancelled">>)
                => /\ last'.outcome = <<"ok">>
                   /\ exported'.bytes = storage[revisions[GetCurrentRevision].stored_path]
          /\ (/\ last'.op = "export_selected"
              /\ SelectedRevision # 0
              /\ last'.outcome # <<"cancelled">>)
                => /\ last'.outcome = <<"ok">>
                   /\ exported'.bytes = storage[revisions[SelectedRevision].stored_path] ]_vars

\* a read-only screen on which a document with a revision is selected, and
\* the deactivate handler has returned at once
C25_Witness ==
    /\ readonly
    /\ selected_document_id # 0
    /\ SelectedRevision # 0
    /\ documents[selected_document_id].active
    /\ last = Outcome("delete", <<"readonly">>)

----------------------------------------------------------------------------
\* C24: after every completed operation, successful or failed, every document
\* of the catalog has at least one revision in the ledger; an import that
\* creates a document and then fails at the copy or at the append leaves no
\* document with zero revisions behind
C24_EveryDocumentHasARevision ==
    \A d \in 1..Len(documents) : RevisionsOfDocument(d) # {}

----------------------------------------------------------------------------
\* C26: a recall whose source revision's stored file is missing, or that is
\* started with no revision selected or with no line and machine selected,
\* aborts before a revision number is allocated: it ends in one of the
\* handler's early returns, appends no revision, writes no file and creates
\* no directory
C26_RecallAbortsEarly ==
    [][ (/\ last'.op = "recall"
         /\ ~readonly
         /\ \/ SelectedRevision = 0
            \/ ~HasLineMachine
            \/ revisions[SelectedRevision].stored_path \notin DOMAIN storage)
        => /\ UNCHANGED <<documents, revisions, storage, dirs>>
           /\ last'.outcome \in {<<"select_first">>, <<"not_found">>,
                                  <<"selection_required">>} ]_vars

\* a recall of a selected revision whose stored file is gone has ended with
\* "Stored file not found."
C26_Witness ==
    /\ last = Outcome("recall", <<"not_found">>)
    /\ SelectedRevision # 0
    /\ revisions[SelectedRevision].stored_path \notin DOMAIN storage

----------------------------------------------------------------------------
\* the characters the claim has replaced by spaces
C23_SeparatorLike == {"_", "/", "\\"}

\* the name the claim describes: the name without extension, underscores and
\* separator-like characters as spaces, whitespace collapsed and trimmed
C23_Claimed(filename) ==
    Join(Words([i \in DOMAIN Stem(filename) |->
                   IF Stem(filename)[i] \in C23_SeparatorLike
                   THEN " " ELSE Stem(filename)[i]], <<>>))

\* file names that differ from this one only in extension, in underscore
\* versus space, or in repeated whitespace
RECURSIVE C23_Repeated(_)
\* the string with every whitespace character written twice
C23_Repeated(s) ==
    IF s = <<>> THEN <<>>
    ELSE (IF Head(s) \in Whitespace THEN <<Head(s), Head(s)>> ELSE <<Head(s)>>)
             \o C23_Repeated(Tail(s))

C23_Variants(filename) ==
    { Stem(filename) \o <<".", "n">>,
      Replace(Stem(filename), "_", " ") \o Suffix(filename),
      Replace(Stem(filename), " ", "_") \o Suffix(filename),
      C23_Repeated(Stem(filename)) \o Suffix(filename) }

C23_Shaped(name) ==
    /\ \A i \in DOMAIN name : name[i] # "_"
    /\ name # <<>> => name[1] # " " /\ name[Len(name)] # " "
    /\ \A i \in 1..(Len(name) - 1) : ~(name[i] = " " /\ name[i + 1] = " ")

\* C23: name normalization maps a file name to its name without extension,
\* with underscores and path-separator-like characters replaced by spaces,
\* runs of whitespace collapsed to one space and the ends trimmed; the result
\* has no underscore, no leading or trailing space and no two consecutive
\* spaces, and file names that differ only in extension, in underscore versus
\* space or in repeated whitespace get the same name, hence the same document
C23_NormalizationAsSpecified ==
    last.op = "normalize"
        => /\ last.outcome = C23_Claimed(last.input)
           /\ C23_Shaped(last.outcome)
           /\ \A other \in C23_Variants(last.input) :
                 NormalizeDocName(other) = last.outcome

----------------------------------------------------------------------------
C27_LoggedOut ==
    app.user = None /\ app.role = None /\ app.user_line = None

C27_Unmapped(role) == NormalizeRole(role) \notin DOMAIN ROLE_TO_UI

\* C27: after any sequence of login, toggle_theme, route_role and logout
\* calls (and of the login page's check), whenever a user is logged in the
\* normalized role is a key of ROLE_TO_UI; routing with a role that is not
\* mapped logs the session out; after logout user, role and user_line are
\* all None
C27_SessionRoleIsMapped ==
    /\ app.user # None => ~C27_Unmapped(app.role)
    /\ (last.op = "route_role" /\ C27_Unmapped(last.input[1])) => C27_LoggedOut
    /\ (last.op = "login" /\ C27_Unmapped(last.input[2])) => C27_LoggedOut
    /\ last.op = "logout" => C27_LoggedOut

\* login was called for a user with a role that has no screen, while the
\* dark theme was on: route_role has logged the session out
C27_Witness ==
    /\ last.op = "login"
    /\ last.input[1] = <<"u", " ">>
    /\ last.input[2] = <<"Guest">>
    /\ app.is_dark
    /\ C27_LoggedOut
    /\ app.page = "LoginPage"

====
